---------------------------- MODULE Spec2Model ----------------------------
(***************************************************************************)
(* Model of market_recap_ui_2.py: the Streamlit market report generator.   *)
(*                                                                         *)
(*   Spec      one browser session of main(): login gate, script reruns,   *)
(*             and the Generate pipeline (price fetches, news fetch,       *)
(*             classification, extraction, report synthesis, translation,  *)
(*             storing session_state.report_data).                         *)
(*   SpecAgg   get_market_data_by_range applied to every pattern of        *)
(*             per-instrument fetch results.                               *)
(*   SpecNews  categorize_news_themes and extract_key_stories applied to   *)
(*             every bounded article list.                                 *)
(*   SpecStories  the same two, followed by                                *)
(*             _create_news_summary_with_sources, on longer lists of       *)
(*             records with long teasers.                                  *)
(*   SpecPerf  _create_performance_summary applied to snapshots with up to *)
(*             three indices, three sectors and MaxTracked stocks.         *)
(*                                                                         *)
(* Text is a sequence of one-character strings, so that lower() and the    *)
(* `word in text` substring test are computed, not assumed.  Prices are    *)
(* integers in thousandths of a currency unit; a percentage or a rounded   *)
(* price is an integer in hundredths.  Timestamps are integer hours.       *)
(***************************************************************************)
EXTENDS Integers, Sequences, FiniteSets, TLC

VARIABLES
    authenticated,   \* st.session_state.authenticated
    report_data,     \* st.session_state.report_data, or Absent
    pc,              \* position of the running script / driver
    start_date,      \* main: start_date widget value of this run
    end_date,        \* main: end_date widget value of this run
    language,        \* main: language selectbox value of this run
    themes_limit,    \* main: "Stories per Theme" slider value of this run
    articles_limit,  \* main: "Article Analysis Limit" slider value of this run
    discarded,       \* main: this run deleted a stored report (line 797)
    password,        \* password_check: the access code typed in on this run
    hist,            \* what the price provider answered, per ticker
    market_data,     \* main: market_data (the MarketSnapshot)
    news_status,     \* what the news provider did on this run's request
    articles,        \* main: articles
    now,             \* datetime.now() read while scoring
    themes,          \* main: themes (the classifier's buckets)
    key_stories,     \* main: key_stories (the KeyStorySet)
    report_content,  \* main: report_content
    performance_summary,  \* generate_market_report: performance_summary
    news_summary,    \* generate_market_report: news_summary
    trace,           \* the pipeline steps this run has started, in order
    ui               \* the messages this run has rendered

vars == <<authenticated, report_data, pc, start_date, end_date, language,
          themes_limit, hist, market_data, news_status, articles, now,
          themes, key_stories, report_content, trace, ui, articles_limit,
          performance_summary, news_summary, discarded, password>>

-----------------------------------------------------------------------------
(* Bounds of the model.                                                    *)

\* longest article list the news provider returns in Spec
MaxArticles == 2
\* longest article list classified and extracted in SpecNews
MaxNews == 3
\* most observations in one fetched price series
MaxObs == 3
\* calendar days 1..MaxDay offered by the two date widgets
MaxDay == 2
\* longest article list extracted and rendered in SpecStories
MaxFeed == 4
\* most stocks with an entry in a snapshot summarized in SpecPerf
MaxTracked == 11

-----------------------------------------------------------------------------
(* Python values.                                                          *)

\* a variable that is not bound at this point of the run
Unset == "unset"
\* start_date / end_date before st.date_input has assigned them
NoDate == 0
\* 'report_data' not in st.session_state
Absent == [stored |-> FALSE]
\* `'report_data' in st.session_state`
HasReport(rd) == rd.stored
\* report_content before it is assigned
NoContent == [text |-> "unset", translated_to |-> "none"]
\* JSON null / Python None held where a string is expected
NoneVal == <<"None">>

Min(a, b) == IF a <= b THEN a ELSE b

\* abs()
Abs(x) == IF x < 0 THEN -x ELSE x

\* the keys of a dict in insertion order, for a dict whose keys were inserted
\* in the order of the sequence `order`
KeysInOrder(d, order) ==
    LET Present(k) == k \in DOMAIN d IN SelectSeq(order, Present)

\* sorted(..., key=..., reverse=True) on items that carry their key: the sort
\* is stable, so x goes behind every item already placed whose key is not smaller
InsertByKey(sorted, x) ==
    LET k == Cardinality({i \in 1..Len(sorted) : sorted[i].key >= x.key})
    IN  SubSeq(sorted, 1, k) \o <<x>> \o SubSeq(sorted, k + 1, Len(sorted))

RECURSIVE SortedFrom(_, _, _)
SortedFrom(sorted, keyed, i) ==
    IF i > Len(keyed) \/ Len(sorted) # i - 1 THEN sorted
    ELSE SortedFrom(InsertByKey(sorted, keyed[i]), keyed, i + 1)

SortedReverse(keyed) == SortedFrom(<<>>, keyed, 1)

UpperChars ==
    <<"A", "B", "C", "D", "E", "F", "G", "H", "I", "J", "K", "L", "M",
      "N", "O", "P", "Q", "R", "S", "T", "U", "V", "W", "X", "Y", "Z">>

LowerChars ==
    <<"a", "b", "c", "d", "e", "f", "g", "h", "i", "j", "k", "l", "m",
      "n", "o", "p", "q", "r", "s", "t", "u", "v", "w", "x", "y", "z">>

\* str.lower() on one character
LowerChar(c) ==
    IF \E i \in 1..Len(UpperChars) : UpperChars[i] = c
    THEN LowerChars[CHOOSE i \in 1..Len(UpperChars) : UpperChars[i] = c]
    ELSE c

\* str.lower()
Lower(s) == [i \in 1..Len(s) |-> LowerChar(s[i])]

\* Python's `word in text` for strings: word occurs as a contiguous substring
Contains(text, word) ==
    \E i \in 1..(Len(text) - Len(word) + 1) :
        SubSeq(text, i, i + Len(word) - 1) = word

\* f"{title} {teaser}" of the lower-cased title and teaser
ArticleText(article) ==
    Lower(article.title) \o <<" ">> \o Lower(article.teaser)

-----------------------------------------------------------------------------
(* Theme Classifier: categorize_news_themes.                               *)

\* the keys of the themes dict, in insertion order
ThemeOrder ==
    <<"earnings", "fed_policy", "trade_tensions", "tech_developments",
      "geopolitical", "market_movements", "deals_ma", "china_sea",
      "crypto", "other">>

ThemeLabels == {ThemeOrder[i] : i \in 1..Len(ThemeOrder)}

\* the nine `if any(word in text for word in [...])` rules, in code order
theme_rules == <<
    [theme |-> "earnings", words |-> <<
        <<"e", "a", "r", "n", "i", "n", "g", "s">>,
        <<"r", "e", "v", "e", "n", "u", "e">>,
        <<"p", "r", "o", "f", "i", "t">>,
        <<"q", "u", "a", "r", "t", "e", "r", "l", "y">>,
        <<"e", "p", "s">>>>],
    [theme |-> "fed_policy", words |-> <<
        <<"f", "e", "d">>,
        <<"f", "e", "d", "e", "r", "a", "l", " ", "r", "e", "s", "e", "r", "v", "e">>,
        <<"i", "n", "t", "e", "r", "e", "s", "t", " ", "r", "a", "t", "e", "s">>,
        <<"p", "o", "w", "e", "l", "l">>,
        <<"m", "o", "n", "e", "t", "a", "r", "y">>>>],
    [theme |-> "trade_tensions", words |-> <<
        <<"t", "a", "r", "i", "f", "f">>,
        <<"t", "r", "a", "d", "e", " ", "w", "a", "r">>,
        <<"t", "r", "a", "d", "e", " ", "d", "e", "a", "l">>,
        <<"i", "m", "p", "o", "r", "t">>,
        <<"e", "x", "p", "o", "r", "t">>>>],
    [theme |-> "tech_developments", words |-> <<
        <<"a", "i">>,
        <<"a", "r", "t", "i", "f", "i", "c", "i", "a", "l", " ", "i", "n", "t", "e", "l", "l", "i", "g", "e", "n", "c", "e">>,
        <<"t", "e", "c", "h">>,
        <<"s", "e", "m", "i", "c", "o", "n", "d", "u", "c", "t", "o", "r">>,
        <<"c", "h", "i", "p">>>>],
    [theme |-> "geopolitical", words |-> <<
        <<"t", "r", "u", "m", "p">>,
        <<"e", "l", "e", "c", "t", "i", "o", "n">>,
        <<"g", "o", "v", "e", "r", "n", "m", "e", "n", "t">>,
        <<"p", "o", "l", "i", "c", "y">>,
        <<"r", "e", "g", "u", "l", "a", "t", "i", "o", "n">>>>],
    [theme |-> "market_movements", words |-> <<
        <<"s", "u", "r", "g", "e">>,
        <<"p", "l", "u", "n", "g", "e">>,
        <<"r", "a", "l", "l", "y">>,
        <<"c", "r", "a", "s", "h">>,
        <<"s", "o", "a", "r">>,
        <<"t", "u", "m", "b", "l", "e">>>>],
    [theme |-> "deals_ma", words |-> <<
        <<"m", "e", "r", "g", "e", "r">>,
        <<"a", "c", "q", "u", "i", "s", "i", "t", "i", "o", "n">>,
        <<"d", "e", "a", "l">>,
        <<"b", "u", "y", "o", "u", "t">>,
        <<"t", "a", "k", "e", "o", "v", "e", "r">>>>],
    [theme |-> "china_sea", words |-> <<
        <<"c", "h", "i", "n", "a">>,
        <<"c", "h", "i", "n", "e", "s", "e">>,
        <<"a", "s", "i", "a">>,
        <<"s", "i", "n", "g", "a", "p", "o", "r", "e">>,
        <<"h", "o", "n", "g", " ", "k", "o", "n", "g">>>>],
    [theme |-> "crypto", words |-> <<
        <<"b", "i", "t", "c", "o", "i", "n">>,
        <<"c", "r", "y", "p", "t", "o">>,
        <<"b", "l", "o", "c", "k", "c", "h", "a", "i", "n">>,
        <<"e", "t", "h", "e", "r", "e", "u", "m">>>>] >>

\* themes = {'earnings': [], ..., 'other': []}
EmptyThemes == [th \in ThemeLabels |-> <<>>]

\* any(word in text for word in [...]) for one rule
RuleMatches(rule, text) ==
    \E k \in 1..Len(rule.words) : Contains(text, rule.words[k])

\* faulty variant: the rules chained with elif, so only the first matching rule files
RECURSIVE ApplyRulesElif(_, _, _, _)
ApplyRulesElif(buckets, article, text, r) ==
    IF r > Len(theme_rules) THEN buckets
    ELSE IF RuleMatches(theme_rules[r], text)
         THEN [buckets EXCEPT ![theme_rules[r].theme] = Append(@, article)]
         ELSE ApplyRulesElif(buckets, article, text, r + 1)

\* the nine independent `if` statements of the loop body, rule r onwards
RECURSIVE ApplyRules(_, _, _, _)
ApplyRules(buckets, article, text, r) ==
    IF r > Len(theme_rules) THEN buckets
    ELSE ApplyRules(
            IF RuleMatches(theme_rules[r], text)
            THEN [buckets EXCEPT ![theme_rules[r].theme] = Append(@, article)]
            ELSE buckets,
            article, text, r + 1)

\* faulty variant: the flag is overwritten by each rule, so it holds the last rule's result
CategorizedLastRule(text) ==
    RuleMatches(theme_rules[Len(theme_rules)], text)

\* the `categorized` flag at the end of the loop body
Categorized(text) ==
    \E r \in 1..Len(theme_rules) : RuleMatches(theme_rules[r], text)

\* one iteration of `for article in articles`
ClassifyArticle(buckets, article) ==
    LET text == ArticleText(article)
        filed == ApplyRules(buckets, article, text, 1)
    IN  IF ~Categorized(text)
        THEN [filed EXCEPT !["other"] = Append(@, article)]
        ELSE filed

\* `for article in articles`, article i onwards (the test on the keys only
\* makes TLC evaluate the buckets of one iteration before the next one starts)
RECURSIVE ClassifyFrom(_, _, _)
ClassifyFrom(buckets, arts, i) ==
    IF i > Len(arts) \/ DOMAIN buckets # ThemeLabels THEN buckets
    ELSE ClassifyFrom(ClassifyArticle(buckets, arts[i]), arts, i + 1)

\* article.get('title', '').lower() raises AttributeError on a null title/teaser
CategorizeRaises(arts) ==
    \E i \in 1..Len(arts) :
        arts[i].title = NoneVal \/ arts[i].teaser = NoneVal

categorize_news_themes(arts) == ClassifyFrom(EmptyThemes, arts, 1)

-----------------------------------------------------------------------------
(* Importance Scorer & Extractor: _score_article_importance and            *)
(* extract_key_stories.                                                    *)

major_companies ==
    <<<<"a", "p", "p", "l", "e">>,
      <<"m", "i", "c", "r", "o", "s", "o", "f", "t">>,
      <<"g", "o", "o", "g", "l", "e">>,
      <<"a", "m", "a", "z", "o", "n">>,
      <<"t", "e", "s", "l", "a">>,
      <<"m", "e", "t", "a">>,
      <<"n", "v", "i", "d", "i", "a">>>>

impact_words ==
    <<<<"b", "i", "l", "l", "i", "o", "n">>,
      <<"m", "i", "l", "l", "i", "o", "n">>,
      <<"r", "e", "c", "o", "r", "d">>,
      <<"h", "i", "s", "t", "o", "r", "i", "c">>,
      <<"b", "r", "e", "a", "k", "t", "h", "r", "o", "u", "g", "h">>,
      <<"c", "r", "i", "s", "i", "s">>>>

urgent_words ==
    <<<<"b", "r", "e", "a", "k", "i", "n", "g">>,
      <<"j", "u", "s", "t", " ", "i", "n">>,
      <<"u", "r", "g", "e", "n", "t">>,
      <<"a", "l", "e", "r", "t">>>>

\* score added per listed major company present in the text
CompanyWeight == 5
\* score added per listed impact word present in the text
ImpactWeight == 3
\* score added per listed urgency word present in the text
UrgentWeight == 4
\* flat score added to an article less than RecentHours old
RecencyBonus == 5
\* the age, in hours, below which an article gets the recency bonus
RecentHours == 24

\* faulty variant: a list counts once, however many of its entries are present
KeywordScoreOnce(words, weight, text) ==
    IF \E k \in 1..Len(words) : Contains(text, words[k]) THEN weight ELSE 0

\* sum(weight for word in words if word in text)
KeywordScore(words, weight, text) ==
    weight * Cardinality({k \in 1..Len(words) : Contains(text, words[k])})

\* the exception raised inside the try block, "none" if it runs through:
\* article.get('created', '') turns a missing field into '', fromisoformat()
\* raises ValueError on '' and on text that is no ISO timestamp, and
\* subtracting a timestamp without offset from the aware
\* datetime.now().astimezone() raises TypeError
TimestampError(created) ==
    CASE created.kind = "aware" -> "none"
      [] created.kind = "naive" -> "TypeError"
      [] created.kind \in {"absent", "empty", "invalid"} -> "ValueError"

\* faulty variant: 'except ValueError:', which lets a TypeError through
CaughtValueErrorOnly(error) == error = "ValueError"

\* 'except:' without a class catches every exception
Caught(error) == error \in {"ValueError", "TypeError"}

\* the exception of the try block leaves _score_article_importance
TimestampRaises(created) ==
    TimestampError(created) # "none" /\ ~Caught(TimestampError(created))

\* the try/except block: 'except: pass' leaves the score as it is
RecencyScore(created, clock) ==
    IF TimestampError(created) = "none" /\ clock - created.t < RecentHours
    THEN RecencyBonus
    ELSE 0

_score_article_importance(article, clock) ==
    LET text == ArticleText(article)
    IN  KeywordScore(major_companies, CompanyWeight, text)
        + KeywordScore(impact_words, ImpactWeight, text)
        + KeywordScore(urgent_words, UrgentWeight, text)
        + RecencyScore(article.created, clock)

\* scored_articles.append((article, score)) for each article of a bucket
ScoreAll(bucket, clock) ==
    [i \in 1..Len(bucket) |->
        [article |-> bucket[i],
         score |-> _score_article_importance(bucket[i], clock)]]

\* faulty variant: x goes in front of the elements already placed that have
\* its score, so equal scores come out in reverse fetch order
InsertByScoreUnstable(sorted, x) ==
    LET k == Cardinality({i \in 1..Len(sorted) : sorted[i].score > x.score})
    IN  SubSeq(sorted, 1, k) \o <<x>> \o SubSeq(sorted, k + 1, Len(sorted))

\* list.sort(key=score, reverse=True) is stable: x goes behind every element
\* already placed whose score is not smaller
InsertByScore(sorted, x) ==
    LET k == Cardinality({i \in 1..Len(sorted) : sorted[i].score >= x.score})
    IN  SubSeq(sorted, 1, k) \o <<x>> \o SubSeq(sorted, k + 1, Len(sorted))

\* (the test on the length only makes TLC evaluate the list built so far
\* before the next element is placed)
RECURSIVE SortFrom(_, _, _)
SortFrom(sorted, scored, i) ==
    IF i > Len(scored) \/ Len(sorted) # i - 1 THEN sorted
    ELSE SortFrom(InsertByScore(sorted, scored[i]), scored, i + 1)

SortByScoreDesc(scored) == SortFrom(<<>>, scored, 1)

\* faulty variant: the slice takes one element too many
TopKOffByOne(sorted, limit) ==
    [i \in 1..Min(limit + 1, Len(sorted)) |-> sorted[i].article]

\* [article for article, score in scored_articles[:limit]]
TopK(sorted, limit) ==
    [i \in 1..Min(limit, Len(sorted)) |-> sorted[i].article]

\* the themes that pass `if not articles: continue`
ExtractedThemes(buckets) == {th \in DOMAIN buckets : buckets[th] # <<>>}

\* an exception of _score_article_importance leaves extract_key_stories
ExtractRaises(buckets) ==
    \E th \in ExtractedThemes(buckets) :
        \E i \in 1..Len(buckets[th]) : TimestampRaises(buckets[th][i].created)

extract_key_stories(buckets, limit, clock) ==
    [th \in ExtractedThemes(buckets) |->
        TopK(SortByScoreDesc(ScoreAll(buckets[th], clock)), limit)]

-----------------------------------------------------------------------------
(* Market Performance Aggregator: get_market_data_by_range.                *)

\* _setup_market_config, restricted to the leading ticker(s) of each group
market_indices == << [ticker |-> "^GSPC", name |-> "S&P 500"] >>

sector_etfs == << [ticker |-> "XLK", name |-> "Technology"] >>

major_stocks == << "AAPL" >>

sea_stocks == << "BABA" >>

all_stocks == major_stocks \o sea_stocks

Tickers ==
    {market_indices[i].ticker : i \in 1..Len(market_indices)}
    \cup {sector_etfs[i].ticker : i \in 1..Len(sector_etfs)}
    \cup {all_stocks[i] : i \in 1..Len(all_stocks)}

\* round(): to the nearest integer multiple of 1/d, an exact tie to the even one
RoundHalfEven(n, d) ==
    LET q == n \div d
        r == n % d
    IN  IF 2 * r < d THEN q
        ELSE IF 2 * r > d THEN q + 1
        ELSE IF q % 2 = 0 THEN q ELSE q + 1

\* round(price, 2): thousandths to hundredths
RoundPrice(p) == RoundHalfEven(p, 10)

\* faulty variant: the change is taken relative to the last close
ChangePctOfEnd(close) ==
    RoundHalfEven((close[Len(close)] - close[1]) * 10000, close[Len(close)])

\* round(((end_price - start_price) / start_price) * 100, 2), in hundredths of
\* a percent, with start_price = Close.iloc[0] and end_price = Close.iloc[-1]
ChangePct(close) ==
    RoundHalfEven((close[Len(close)] - close[1]) * 10000, close[1])

\* faulty variant: a single observation is accepted
UsableFromOne(h) == ~h.raised /\ Len(h.close) >= 1

\* the try block reaches the assignment: history() did not raise, and
\* `not hist.empty and len(hist) >= 2`
Usable(h) == ~h.raised /\ Len(h.close) >= 2

IndexEntry(name, close) ==
    [name |-> name,
     current_price |-> RoundPrice(close[Len(close)]),
     change_pct |-> ChangePct(close),
     start_price |-> RoundPrice(close[1])]

SectorEntry(name, close) ==
    [name |-> name, change_pct |-> ChangePct(close)]

StockEntry(close) ==
    [change_pct |-> ChangePct(close),
     current_price |-> RoundPrice(close[Len(close)])]

\* the first loop: market_data[ticker] = {...} for each usable index
IndexData(h) ==
    LET at(t) == CHOOSE i \in 1..Len(market_indices) : market_indices[i].ticker = t
    IN  [t \in {market_indices[i].ticker : i \in 1..Len(market_indices)}
                \cap {t \in DOMAIN h : Usable(h[t])}
            |-> IndexEntry(market_indices[at(t)].name, h[t].close)]

\* the second loop: sector_data
SectorData(h) ==
    LET at(t) == CHOOSE i \in 1..Len(sector_etfs) : sector_etfs[i].ticker = t
    IN  [t \in {sector_etfs[i].ticker : i \in 1..Len(sector_etfs)}
                \cap {t \in DOMAIN h : Usable(h[t])}
            |-> SectorEntry(sector_etfs[at(t)].name, h[t].close)]

\* the third loop: stock_data
StockData(h) ==
    [t \in {all_stocks[i] : i \in 1..Len(all_stocks)}
            \cap {t \in DOMAIN h : Usable(h[t])}
        |-> StockEntry(h[t].close)]

\* faulty variant: a group with no entry is not stored
WithGroupIfAny(md, key, data) ==
    IF DOMAIN data = {} THEN md ELSE md @@ (key :> data)

\* market_data['sectors'] = sector_data; market_data['stocks'] = stock_data
WithGroup(md, key, data) == md @@ (key :> data)

\* the dict returned: one key per usable index ticker, plus 'sectors' and 'stocks'
get_market_data_by_range(h) ==
    WithGroup(WithGroup(IndexData(h), "sectors", SectorData(h)),
              "stocks", StockData(h))

\* the index tickers of a snapshot: `ticker not in ['sectors', 'stocks']`
IndexKeys(md) == DOMAIN md \ {"sectors", "stocks"}

-----------------------------------------------------------------------------
(* Inputs: what the providers and the user can supply.                     *)

\* every sequence over S of length 0..n
SeqsUpTo(S, n) == UNION {[1..k -> S] : k \in 0..n}

\* two closing prices (in thousandths) each modelled instrument can trade at
PricePool(t) ==
    CASE t = "^GSPC" -> <<4000000, 4100000>>
      [] t = "XLK"   -> <<100000, 110000>>
      [] t = "AAPL"  -> <<150125, 149875>>
      [] OTHER       -> <<80000, 81000>>

\* yf.Ticker(t).history(...) raised
Raised == [raised |-> TRUE, close |-> <<>>]

\* history() returned the Close column `close`
Returned(close) == [raised |-> FALSE, close |-> close]

\* an answer of the price provider, its closes named by their place in a pool
FetchShapes ==
    {Raised} \cup {Returned(c) : c \in SeqsUpTo({1, 2}, MaxObs)}

\* the answer of shape sh for ticker t
FetchResult(t, sh) ==
    [raised |-> sh.raised,
     close |-> [i \in 1..Len(sh.close) |-> PricePool(t)[sh.close[i]]]]

\* the pattern of per-instrument answers of the given shapes
HistOf(shape) == [t \in Tickers |-> FetchResult(t, shape[t])]

\* the 'created' field of a record: an ISO timestamp with offset ("aware",
\* at hour t), one without offset ("naive", hour t), text that is no ISO
\* timestamp ("invalid"), the empty string ("empty"), or no field ("absent")
Created(kind, t) == [kind |-> kind, t |-> t]

Article(title, teaser, created, url) ==
    [title |-> title, teaser |-> teaser, created |-> created, url |-> url]

FedArticle ==
    Article(<<"F", "e", "d", " ", "s", "i", "g", "n", "a", "l", "s", " ",
              "n", "e", "w", " ", "t", "a", "r", "i", "f", "f", "s", " ",
              "o", "n", " ", "C", "h", "i", "n", "a", " ",
              "i", "m", "p", "o", "r", "t", "s">>,
            <<>>, Created("aware", 24), "u1")

QuietArticle ==
    Article(<<"Q", "u", "i", "e", "t", " ", "d", "a", "y">>,
            <<"N", "o", "t", "h", "i", "n", "g", " ", "m", "o", "v", "e", "d">>,
            Created("aware", 0), "u2")

TradeWarArticle ==
    Article(<<"T", "r", "a", "d", "e">>,
            <<"W", "a", "r", " ", "l", "o", "o", "m", "s">>,
            Created("naive", 40), "u3")

AppleArticle ==
    Article(<<"A", "p", "p", "l", "e", " ", "p", "o", "s", "t", "s", " ",
              "R", "E", "C", "O", "R", "D", " ", "p", "r", "o", "f", "i", "t">>,
            <<"B", "R", "E", "A", "K", "I", "N", "G">>,
            Created("aware", 24), "u4")

TeslaArticle ==
    Article(<<"T", "e", "s", "l", "a", " ", "a", "l", "e", "r", "t">>,
            <<"C", "r", "i", "s", "i", "s">>,
            Created("absent", 0), "u5")

RainArticle ==
    Article(<<"R", "a", "i", "n", " ", "d", "e", "l", "a", "y", "s">>,
            <<>>, Created("aware", 60), "u6")

\* a record whose title is JSON null
NullTitleArticle ==
    Article(NoneVal, <<>>, Created("invalid", 0), "u7")

\* the well-formed article records
ArticlePool ==
    {FedArticle, QuietArticle, TradeWarArticle, AppleArticle, TeslaArticle,
     RainArticle}

\* the clock readings datetime.now() can give while scoring
NowValues == {47, 48}

\* the "Stories per Theme" slider: st.slider(..., 1, 5, 3)
MinStories == 1
MaxStories == 5
ThemesLimits == MinStories..MaxStories

\* the lowest setting of the "Article Analysis Limit" slider:
\* st.slider(..., 50, 300, 200, 25)
ArticlesLimitMin == 50
\* the settings of the slider the session is run with
ArticleLimits == {ArticlesLimitMin}

\* "pageSize": 200, the most records one news request returns
PageSize == 200

\* a record that no keyword occurs in
BriefArticle ==
    Article(<<"U", "p">>, <<>>, Created("absent", 0), "u8")

\* a page of one record more than the smallest "Article Analysis Limit"
OverLimitPage ==
    [i \in 1..Min(PageSize, ArticlesLimitMin + 1) |-> BriefArticle]

-----------------------------------------------------------------------------
(* Prompt Builder: _create_performance_summary and                         *)
(* _create_news_summary_with_sources, called by generate_market_report.    *)

\* f"{change:+.2f}" of a change held in hundredths: sign, integer part and
\* the two decimals
FormatChange(change) ==
    [sign  |-> IF change < 0 THEN "-" ELSE "+",
     whole |-> Abs(change) \div 100,
     frac  |-> Abs(change) % 100]

\* summary.append(f"* {label}: {change:+.2f}%")
PerfLine(label, change) == [label |-> label, change |-> FormatChange(change)]

\* the number of stock lines rendered: stocks_sorted[:10]
TopStocks == 10

\* the first loop: a line per key of market_data other than 'sectors' and
\* 'stocks', in the dict's insertion order
IndexLines(md, order) ==
    LET keys == KeysInOrder(md, order)
    IN  [i \in 1..Len(keys) |->
            PerfLine(md[keys[i]].name, md[keys[i]].change_pct)]

\* faulty variant: the sectors are rendered by ascending change
SectorsSortedAscending(sectors, order) ==
    LET keys == KeysInOrder(sectors, order)
    IN  SortedReverse([i \in 1..Len(keys) |->
            [key |-> 0 - sectors[keys[i]].change_pct, ticker |-> keys[i],
             data |-> sectors[keys[i]]]])

\* sorted(market_data['sectors'].items(),
\*        key=lambda x: x[1]['change_pct'], reverse=True)
SectorsSorted(sectors, order) ==
    LET keys == KeysInOrder(sectors, order)
    IN  SortedReverse([i \in 1..Len(keys) |->
            [key |-> sectors[keys[i]].change_pct, ticker |-> keys[i],
             data |-> sectors[keys[i]]]])

\* sorted(market_data['stocks'].items(),
\*        key=lambda x: abs(x[1]['change_pct']), reverse=True)
StocksSorted(stocks, order) ==
    LET keys == KeysInOrder(stocks, order)
    IN  SortedReverse([i \in 1..Len(keys) |->
            [key |-> Abs(stocks[keys[i]].change_pct), ticker |-> keys[i],
             data |-> stocks[keys[i]]]])

\* the summary as its three blocks of lines, each under its heading; `order`
\* gives the insertion order of the snapshot's three dicts
_create_performance_summary(md, order) ==
    LET sectors_sorted ==
            IF "sectors" \in DOMAIN md
            THEN SectorsSorted(md["sectors"], order.sectors) ELSE <<>>
        stocks_sorted ==
            IF "stocks" \in DOMAIN md
            THEN StocksSorted(md["stocks"], order.stocks) ELSE <<>>
    IN  [indices |-> IndexLines(md, order.indices),
         has_sectors |-> "sectors" \in DOMAIN md,
         sectors |->
            [i \in 1..Len(sectors_sorted) |->
                PerfLine(sectors_sorted[i].data.name,
                         sectors_sorted[i].data.change_pct)],
         has_stocks |-> "stocks" \in DOMAIN md,
         stocks |->
            [i \in 1..Min(TopStocks, Len(stocks_sorted)) |->
                PerfLine(stocks_sorted[i].ticker,
                         stocks_sorted[i].data.change_pct)]]

\* the insertion order of a snapshot built by get_market_data_by_range: each
\* loop inserts in the order of the configuration
ConfigOrder ==
    [indices |-> [i \in 1..Len(market_indices) |-> market_indices[i].ticker],
     sectors |-> [i \in 1..Len(sector_etfs) |-> sector_etfs[i].ticker],
     stocks  |-> all_stocks]

\* theme_names[theme].upper(), the heading of a theme's block
theme_headings ==
    [th \in ThemeLabels |->
        CASE th = "earnings"          -> "EARNINGS REPORTS"
          [] th = "fed_policy"        -> "FEDERAL RESERVE & MONETARY POLICY"
          [] th = "trade_tensions"    -> "TRADE & TARIFFS"
          [] th = "tech_developments" -> "TECHNOLOGY DEVELOPMENTS"
          [] th = "geopolitical"      -> "GEOPOLITICAL EVENTS"
          [] th = "market_movements"  -> "MAJOR MARKET MOVEMENTS"
          [] th = "deals_ma"          -> "MERGERS & ACQUISITIONS"
          [] th = "china_sea"         -> "CHINA & ASIA-PACIFIC"
          [] th = "crypto"            -> "CRYPTOCURRENCY"
          [] OTHER                    -> "OTHER NOTABLE NEWS"]

\* the teaser length above which the summary cuts the teaser
TeaserLimit == 200

\* the marker appended to a cut teaser
Ellipsis == <<".", ".", ".">>

\* the number of stories rendered per theme: articles[:3]
RenderedStories == 3

\* faulty variant: the marker is appended to every teaser
TeaserShownAlwaysMarked(teaser) ==
    SubSeq(teaser, 1, Min(TeaserLimit, Len(teaser))) \o Ellipsis

\* teaser[:200] + "..." if len(teaser) > 200 else teaser
TeaserShown(teaser) ==
    IF Len(teaser) > TeaserLimit
    THEN SubSeq(teaser, 1, TeaserLimit) \o Ellipsis
    ELSE teaser

\* the seven lines appended for the i-th article of a block
NewsEntry(i, article) ==
    [number     |-> i,
     title      |-> article.title,
     date       |-> article.created,
     summary    |-> TeaserShown(article.teaser),
     source     |-> "Benzinga",
     url        |-> article.url,
     disclaimer |->
        "This is a third-party news source. Please verify independently."]

\* one block per key of key_stories, in the dict's insertion order (the
\* order of the themes dict), skipping a key with no article
_create_news_summary_with_sources(stories) ==
    LET NonEmpty(th) == stories[th] # <<>>
        keys == SelectSeq(KeysInOrder(stories, ThemeOrder), NonEmpty)
    IN  [b \in 1..Len(keys) |->
            [theme   |-> keys[b],
             heading |-> theme_headings[keys[b]],
             entries |->
                [i \in 1..Min(RenderedStories, Len(stories[keys[b]])) |->
                    NewsEntry(i, stories[keys[b]][i])]]]

-----------------------------------------------------------------------------
(* Values of the variables a specification does not use.                   *)

SessionIdle ==
    /\ authenticated = FALSE
    /\ report_data = Absent
    /\ start_date = NoDate
    /\ end_date = NoDate
    /\ language = Unset
    /\ report_content = NoContent
    /\ news_status = Unset
    /\ trace = <<>>
    /\ ui = {}
    /\ articles_limit = Unset
    /\ discarded = FALSE
    /\ password = Unset
    /\ performance_summary = Unset
    /\ news_summary = Unset

-----------------------------------------------------------------------------
(* SpecAgg: get_market_data_by_range on every pattern of fetch results.    *)

InitAgg ==
    /\ SessionIdle
    /\ pc = "agg_call"
    /\ hist = Unset
    /\ market_data = Unset
    /\ themes_limit = Unset
    /\ articles = Unset
    /\ now = Unset
    /\ themes = Unset
    /\ key_stories = Unset

\* one call: the provider answers each instrument, the aggregator returns
Aggregate ==
    /\ pc = "agg_call"
    /\ \E shape \in [Tickers -> FetchShapes] :
        /\ hist' = HistOf(shape)
        /\ market_data' = get_market_data_by_range(HistOf(shape))
    /\ pc' = "agg_returned"
    /\ UNCHANGED <<authenticated, report_data, start_date, end_date, language,
                   themes_limit, news_status, articles, now, themes,
                   key_stories, report_content, trace, ui>>
    /\ UNCHANGED <<articles_limit, performance_summary, news_summary,
                   discarded, password>>

NextAgg == Aggregate

SpecAgg == InitAgg /\ [][NextAgg]_vars

-----------------------------------------------------------------------------
(* SpecNews: categorize_news_themes, then extract_key_stories, on every    *)
(* list of at most MaxNews well-formed articles.                           *)

InitNews ==
    /\ SessionIdle
    /\ pc = "news_fetched"
    /\ hist = Unset
    /\ market_data = Unset
    /\ articles \in SeqsUpTo(ArticlePool, MaxNews)
    /\ themes_limit \in ThemesLimits
    /\ now = Unset
    /\ themes = Unset
    /\ key_stories = Unset

Categorize ==
    /\ pc = "news_fetched"
    /\ themes' = categorize_news_themes(articles)
    /\ pc' = "classified"
    /\ UNCHANGED <<authenticated, report_data, start_date, end_date, language,
                   themes_limit, hist, market_data, news_status, articles, now,
                   key_stories, report_content, trace, ui>>
    /\ UNCHANGED <<articles_limit, performance_summary, news_summary,
                   discarded, password>>

Extract ==
    /\ pc = "classified"
    /\ \E clock \in NowValues :
        /\ now' = clock
        /\ IF ExtractRaises(themes)
           THEN key_stories' = key_stories /\ pc' = "extract_raised"
           ELSE /\ key_stories' =
                     extract_key_stories(themes, themes_limit, clock)
                /\ pc' = "extracted"
    /\ UNCHANGED <<authenticated, report_data, start_date, end_date, language,
                   themes_limit, hist, market_data, news_status, articles,
                   themes, report_content, trace, ui>>
    /\ UNCHANGED <<articles_limit, performance_summary, news_summary,
                   discarded, password>>

NextNews == Categorize \/ Extract

SpecNews == InitNews /\ [][NextNews]_vars

-----------------------------------------------------------------------------
(* SpecStories: categorize_news_themes, extract_key_stories and            *)
(* _create_news_summary_with_sources on every list of at most MaxFeed      *)
(* records of the story pool.                                              *)

\* a record naming two companies, two impact words and two urgency words
BusyArticle ==
    Article(<<"A", "p", "p", "l", "e", " ", "a", "n", "d", " ",
              "M", "i", "c", "r", "o", "s", "o", "f", "t", " ",
              "p", "o", "s", "t", " ", "r", "e", "c", "o", "r", "d", " ",
              "b", "i", "l", "l", "i", "o", "n">>,
            <<"B", "r", "e", "a", "k", "i", "n", "g", ",", " ",
              "u", "r", "g", "e", "n", "t">>,
            Created("naive", 40), "u9")

\* a record whose teaser has exactly TeaserLimit characters
FullTeaserArticle ==
    Article(<<"F", "u", "l", "l", " ", "r", "e", "a", "d">>,
            [i \in 1..TeaserLimit |-> "x"],
            Created("empty", 0), "u10")

\* a record whose teaser has one character more than TeaserLimit
LongTeaserArticle ==
    Article(<<"L", "o", "n", "g", " ", "r", "e", "a", "d">>,
            [i \in 1..(TeaserLimit + 1) |->
                IF i <= TeaserLimit THEN "x" ELSE "y"],
            Created("invalid", 0), "u11")

\* the records extracted and rendered in SpecStories
StoryPool == {BusyArticle, FullTeaserArticle, LongTeaserArticle}

\* a feed whose records have a 'created' that is missing, without offset,
\* empty and unparseable
UndatedFeed ==
    <<TeslaArticle, BusyArticle, FullTeaserArticle, LongTeaserArticle>>

InitStories ==
    /\ SessionIdle
    /\ pc = "news_fetched"
    /\ hist = Unset
    /\ market_data = Unset
    /\ articles \in SeqsUpTo(StoryPool, MaxFeed) \cup {UndatedFeed}
    /\ themes_limit \in ThemesLimits
    /\ now = Unset
    /\ themes = Unset
    /\ key_stories = Unset

\* news_summary = self._create_news_summary_with_sources(key_stories)
BuildNewsSummary ==
    /\ pc = "extracted"
    /\ news_summary' = _create_news_summary_with_sources(key_stories)
    /\ pc' = "summarized"
    /\ UNCHANGED <<authenticated, report_data, start_date, end_date, language,
                   themes_limit, hist, market_data, news_status, articles, now,
                   themes, key_stories, report_content, trace, ui,
                   articles_limit, performance_summary, discarded, password>>

NextStories == Categorize \/ Extract \/ BuildNewsSummary

SpecStories == InitStories /\ [][NextStories]_vars

-----------------------------------------------------------------------------
(* SpecPerf: _create_performance_summary on snapshots over the leading     *)
(* instruments of the configuration.                                       *)

\* the first three market_indices of _setup_market_config
SummaryIndices ==
    << [ticker |-> "^GSPC", name |-> "S&P 500"],
       [ticker |-> "^DJI", name |-> "Dow Jones"],
       [ticker |-> "^IXIC", name |-> "NASDAQ"] >>

\* the first three sector_etfs of _setup_market_config
SummarySectors ==
    << [ticker |-> "XLK", name |-> "Technology"],
       [ticker |-> "XLF", name |-> "Financials"],
       [ticker |-> "XLV", name |-> "Healthcare"] >>

\* major_stocks of _setup_market_config
SummaryStocks ==
    <<"AAPL", "MSFT", "GOOGL", "AMZN", "TSLA", "META", "NVDA", "JPM", "JNJ",
      "V", "WMT", "UNH", "HD", "PG", "MA">>

\* the insertion order of a snapshot over these instruments
SummaryOrder ==
    [indices |-> [i \in 1..Len(SummaryIndices) |-> SummaryIndices[i].ticker],
     sectors |-> [i \in 1..Len(SummarySectors) |-> SummarySectors[i].ticker],
     stocks  |-> SummaryStocks]

\* the series (first and last close, in thousandths) an instrument of the
\* snapshot moved along: -3.00%, 0.00%, +1.00% and +2.50%
Moves ==
    <<<<100000, 97000>>, <<100000, 100000>>, <<100000, 101000>>,
      <<100000, 102500>>>>

\* the snapshot in which the indices of `present` have an entry, sector i
\* moved along Moves[sector_move[i]] (0: no entry), and the first n stocks
\* have an entry, stock i moving along the Moves in turn from `shift` on
SnapshotOf(present, sector_move, n, shift) ==
    LET idx == [t \in present |->
                  LET i == CHOOSE i \in 1..Len(SummaryIndices) :
                               SummaryIndices[i].ticker = t
                  IN  IndexEntry(SummaryIndices[i].name, Moves[i])]
        sec == [t \in {SummarySectors[i].ticker :
                         i \in {j \in 1..Len(SummarySectors) : sector_move[j] # 0}} |->
                  LET i == CHOOSE i \in 1..Len(SummarySectors) :
                               SummarySectors[i].ticker = t
                  IN  SectorEntry(SummarySectors[i].name, Moves[sector_move[i]])]
        stk == [t \in {SummaryStocks[i] : i \in 1..Min(n, Len(SummaryStocks))} |->
                  LET i == CHOOSE i \in 1..Len(SummaryStocks) : SummaryStocks[i] = t
                  IN  StockEntry(Moves[((i + shift) % Len(Moves)) + 1])]
    IN  WithGroup(WithGroup(idx, "sectors", sec), "stocks", stk)

InitPerf ==
    /\ SessionIdle
    /\ pc = "perf_call"
    /\ hist = Unset
    /\ \E present \in SUBSET {SummaryIndices[i].ticker : i \in 1..Len(SummaryIndices)},
          sector_move \in [1..Len(SummarySectors) -> 0..Len(Moves)],
          n \in 0..MaxTracked,
          shift \in 0..2 :
            market_data = SnapshotOf(present, sector_move, n, shift)
    /\ themes_limit = Unset
    /\ articles = Unset
    /\ now = Unset
    /\ themes = Unset
    /\ key_stories = Unset

\* performance_summary = self._create_performance_summary(market_data, ...)
BuildPerformanceSummary ==
    /\ pc = "perf_call"
    /\ performance_summary' =
         _create_performance_summary(market_data, SummaryOrder)
    /\ pc' = "perf_built"
    /\ UNCHANGED <<authenticated, report_data, start_date, end_date, language,
                   themes_limit, hist, market_data, news_status, articles, now,
                   themes, key_stories, report_content, trace, ui,
                   articles_limit, news_summary, discarded, password>>

NextPerf == BuildPerformanceSummary

SpecPerf == InitPerf /\ [][NextPerf]_vars

-----------------------------------------------------------------------------
(* The session: password_check and main.                                   *)

\* get_app_password with APP_PASSWORD set neither in the environment nor in
\* the Streamlit secrets: the fallback
get_app_password == "weekly_report"

\* access codes a visitor may submit
AccessCodes == {"weekly_report", "letmein"}

\* the options of the "Report Language" selectbox
Languages ==
    {"English", "Thai", "Simplified Chinese", "Traditional Chinese",
     "Vietnamese"}

Days == 1..MaxDay

\* faulty variant: equal dates are let through
InvalidRangeStrict(s, e) == s > e

\* `if start_date >= end_date:` of main
InvalidRange(s, e) == s >= e

\* the answers of the news provider: a JSON list of at most MaxArticles
\* records, the over-limit page, a JSON value that is no list, or a
\* transport/parsing exception
NewsResponses ==
    {[kind |-> "list", body |-> b] :
        b \in SeqsUpTo({FedArticle, QuietArticle, NullTitleArticle},
                       MaxArticles)}
    \cup {[kind |-> "list", body |-> OverLimitPage],
          [kind |-> "nonlist", body |-> <<>>],
          [kind |-> "error", body |-> <<>>]}

\* _make_benzinga_request: the list on success, [] for a non-list payload,
\* and st.error plus [] when urlopen/read/json.loads raises
_make_benzinga_request(resp) ==
    [result |-> IF resp.kind = "list" THEN resp.body ELSE <<>>,
     shown  |-> IF resp.kind = "error" THEN {"benzinga_error"} ELSE {}]

get_articles_by_date_range(resp) == _make_benzinga_request(resp).result

\* faulty variant: the empty-result test is missing
NoArticlesNever(arts) == FALSE

\* `if not articles:` of main
NoArticles(arts) == arts = <<>>

\* the price answers the session is run against: every instrument answers,
\* none does, or only the first index fails
SessionHists ==
    {[t \in Tickers |->
        IF t \in failing THEN Raised
        ELSE Returned(<<PricePool(t)[1], PricePool(t)[2]>>)] :
        failing \in {{}, Tickers, {market_indices[1].ticker}}}

\* what chat.completions.create returned for the report request
LLMReport == [text |-> "generated report", translated_to |-> "none"]

\* the string generate_market_report returns from its except branch
ErrorReport ==
    [text |-> "Error generating market report", translated_to |-> "none"]

\* generate_market_report: the completion on success; on an exception
\* st.error and the error string as the return value
generate_market_report(ok) ==
    [content |-> IF ok THEN LLMReport ELSE ErrorReport,
     shown   |-> IF ok THEN {} ELSE {"openai_error"}]

\* faulty variant: the except branch returns the error text as the content
TranslationRequestLosesText(content, target, ok) ==
    [content |-> IF ok THEN [content EXCEPT !.translated_to = target]
                       ELSE [text |-> "Translation error", translated_to |-> "none"],
     shown   |-> IF ok THEN {} ELSE {"translation_error"},
     called  |-> TRUE]

\* the try/except of translate_content: chat.completions.create is called;
\* the translation on success, on an exception st.error and the content as
\* it was passed in
TranslationRequest(content, target, ok) ==
    [content |-> IF ok THEN [content EXCEPT !.translated_to = target]
                       ELSE content,
     shown   |-> IF ok THEN {} ELSE {"translation_error"},
     called  |-> TRUE]

\* faulty variant: the test for the base language is missing
translate_contentAlways(content, target, ok) ==
    TranslationRequest(content, target, ok)

\* translate_content: `if target_language == "English": return content`,
\* else the request
translate_content(content, target, ok) ==
    IF target = "English"
    THEN [content |-> content, shown |-> {}, called |-> FALSE]
    ELSE TranslationRequest(content, target, ok)

\* len([t for t, a in themes.items() if a])
ThemesCount(buckets) == Cardinality({th \in DOMAIN buckets : buckets[th] # <<>>})

Init ==
    /\ SessionIdle
    /\ pc = "idle"
    /\ hist = Unset
    /\ market_data = Unset
    /\ themes_limit = Unset
    /\ articles = Unset
    /\ now = Unset
    /\ themes = Unset
    /\ key_stories = Unset

\* faulty variant: every submitted code is accepted
CodeAcceptedAny(submitted, correct_password) == TRUE

\* password_check: 'if password == correct_password'
CodeAccepted(submitted, correct_password) == submitted = correct_password

\* password_check: the login button pressed with an access code typed in
LoginAttempt ==
    /\ pc = "idle"
    /\ ~authenticated
    /\ \E code \in AccessCodes :
        /\ password' = code
        /\ IF CodeAccepted(code, get_app_password)
           THEN authenticated' = TRUE /\ ui' = {}
           ELSE authenticated' = FALSE /\ ui' = {"invalid_code"}
    /\ UNCHANGED <<report_data, pc, start_date, end_date, language,
                   themes_limit, hist, market_data, news_status, articles, now,
                   themes, key_stories, report_content, trace>>
    /\ UNCHANGED <<articles_limit, performance_summary, news_summary, discarded>>

\* a run of main that stops at the date validation
RunDateError ==
    /\ pc = "idle"
    /\ authenticated
    /\ \E s \in Days, e \in Days :
        /\ InvalidRange(s, e)
        /\ start_date' = s
        /\ end_date' = e
    /\ language' = Unset
    /\ themes_limit' = Unset
    /\ market_data' = Unset
    /\ news_status' = Unset
    /\ articles' = Unset
    /\ now' = Unset
    /\ themes' = Unset
    /\ key_stories' = Unset
    /\ report_content' = NoContent
    /\ trace' = <<>>
    /\ ui' = {"date_error"}
    /\ UNCHANGED <<authenticated, report_data, pc, hist>>
    /\ articles_limit' = Unset
    /\ discarded' = FALSE
    /\ password' = Unset
    /\ performance_summary' = Unset
    /\ news_summary' = Unset

\* a run of main without the Generate button: the stored report, if any, is shown
RunDisplay ==
    /\ pc = "idle"
    /\ authenticated
    /\ \E s \in Days, e \in Days :
        /\ ~InvalidRange(s, e)
        /\ start_date' = s
        /\ end_date' = e
    /\ language' \in Languages
    /\ themes_limit' \in ThemesLimits
    /\ market_data' = Unset
    /\ news_status' = Unset
    /\ articles' = Unset
    /\ now' = Unset
    /\ themes' = Unset
    /\ key_stories' = Unset
    /\ report_content' = NoContent
    /\ trace' = <<>>
    /\ ui' = IF HasReport(report_data) THEN {"report_displayed"} ELSE {}
    /\ UNCHANGED <<authenticated, report_data, pc, hist>>
    /\ articles_limit' \in ArticleLimits
    /\ discarded' = FALSE
    /\ password' = Unset
    /\ performance_summary' = Unset
    /\ news_summary' = Unset

\* faulty variant: the report of an earlier invocation is kept
DiscardReportNever(stored) == stored

\* main: 'if "report_data" in st.session_state: del st.session_state.report_data'
DiscardReport(stored) == Absent

\* a run of main with the Generate button pressed, up to the first fetch
ClickGenerate ==
    /\ pc = "idle"
    /\ authenticated
    /\ \E s \in Days, e \in Days :
        /\ ~InvalidRange(s, e)
        /\ start_date' = s
        /\ end_date' = e
    /\ language' \in Languages
    /\ themes_limit' \in ThemesLimits
    /\ report_data' = DiscardReport(report_data)
    /\ market_data' = Unset
    /\ news_status' = Unset
    /\ articles' = Unset
    /\ now' = Unset
    /\ themes' = Unset
    /\ key_stories' = Unset
    /\ report_content' = NoContent
    /\ trace' = <<>>
    /\ ui' = {}
    /\ pc' = "prices"
    /\ UNCHANGED <<authenticated, hist>>
    /\ articles_limit' \in ArticleLimits
    /\ discarded' = HasReport(report_data)
    /\ password' = Unset
    /\ performance_summary' = Unset
    /\ news_summary' = Unset

\* Step 1: market_data = generator.get_market_data_by_range(...)
FetchPrices ==
    /\ pc = "prices"
    /\ trace' = Append(trace, "prices")
    /\ \E h \in SessionHists : market_data' = get_market_data_by_range(h)
    /\ pc' = "news"
    /\ UNCHANGED <<authenticated, report_data, start_date, end_date, language,
                   themes_limit, hist, news_status, articles, now, themes,
                   key_stories, report_content, ui>>
    /\ UNCHANGED <<articles_limit, performance_summary, news_summary,
                   discarded, password>>

\* Step 2: articles = generator.get_articles_by_date_range(...), and the
\* `if not articles:` return
FetchNews ==
    /\ pc = "news"
    /\ trace' = Append(trace, "news")
    /\ \E resp \in NewsResponses :
        /\ news_status' = resp.kind
        /\ articles' = get_articles_by_date_range(resp)
        /\ IF NoArticles(get_articles_by_date_range(resp))
           THEN /\ ui' = ui \cup _make_benzinga_request(resp).shown
                            \cup {"no_articles"}
                /\ pc' = "idle"
           ELSE /\ ui' = ui \cup _make_benzinga_request(resp).shown
                /\ pc' = "analysis"
    /\ UNCHANGED <<authenticated, report_data, start_date, end_date, language,
                   themes_limit, hist, market_data, now, themes, key_stories,
                   report_content>>
    /\ UNCHANGED <<articles_limit, performance_summary, news_summary,
                   discarded, password>>

\* Step 3: categorize_news_themes and extract_key_stories; an exception
\* raised there reaches main's `except Exception`
Analyze ==
    /\ pc = "analysis"
    /\ IF CategorizeRaises(articles)
       THEN /\ trace' = Append(trace, "classify")
            /\ ui' = ui \cup {"processing_error"}
            /\ pc' = "idle"
            /\ UNCHANGED <<now, themes, key_stories>>
       ELSE IF ExtractRaises(categorize_news_themes(articles))
       THEN /\ trace' = trace \o <<"classify", "extract">>
            /\ themes' = categorize_news_themes(articles)
            /\ ui' = ui \cup {"processing_error"}
            /\ pc' = "idle"
            /\ UNCHANGED <<now, key_stories>>
       ELSE /\ trace' = trace \o <<"classify", "extract">>
            /\ themes' = categorize_news_themes(articles)
            /\ \E clock \in NowValues :
                /\ now' = clock
                /\ key_stories' =
                     extract_key_stories(categorize_news_themes(articles),
                                         themes_limit, clock)
            /\ pc' = "synthesize"
            /\ UNCHANGED ui
    /\ UNCHANGED <<authenticated, report_data, start_date, end_date, language,
                   themes_limit, hist, market_data, news_status, articles,
                   report_content>>
    /\ UNCHANGED <<articles_limit, performance_summary, news_summary,
                   discarded, password>>

\* Step 4: report_content = generator.generate_market_report(...): the two
\* summaries are built, then the report is requested
Synthesize ==
    /\ pc = "synthesize"
    /\ trace' = Append(trace, "synthesize")
    /\ performance_summary' =
         _create_performance_summary(market_data, ConfigOrder)
    /\ news_summary' = _create_news_summary_with_sources(key_stories)
    /\ \E ok \in BOOLEAN :
        /\ report_content' = generate_market_report(ok).content
        /\ ui' = ui \cup generate_market_report(ok).shown
    /\ pc' = IF language # "English" THEN "translate" ELSE "store"
    /\ UNCHANGED <<authenticated, report_data, start_date, end_date, language,
                   themes_limit, hist, market_data, news_status, articles, now,
                   themes, key_stories>>
    /\ UNCHANGED <<articles_limit, discarded, password>>

\* faulty variant: the translation is requested before the report is synthesized
TranslateBeforeSynthesis ==
    /\ pc = "synthesize"
    /\ ~(\E i \in 1..Len(trace) : trace[i] = "translate")
    /\ language # "English"
    /\ \E ok \in BOOLEAN :
        LET r == translate_content(report_content, language, ok)
        IN  /\ report_content' = r.content
            /\ ui' = ui \cup r.shown
            /\ trace' = Append(trace, "translate")
    /\ UNCHANGED <<authenticated, report_data, pc, start_date, end_date,
                   language, themes_limit, hist, market_data, news_status,
                   articles, now, themes, key_stories, articles_limit,
                   performance_summary, news_summary, discarded, password>>

\* Step 5: report_content = generator.translate_content(report_content,
\* language); "translate" enters the trace when the request is issued
Translate ==
    /\ pc = "translate"
    /\ \E ok \in BOOLEAN :
        LET r == translate_content(report_content, language, ok)
        IN  /\ report_content' = r.content
            /\ ui' = ui \cup r.shown
            /\ trace' = IF r.called THEN Append(trace, "translate") ELSE trace
    /\ pc' = "store"
    /\ UNCHANGED <<authenticated, report_data, start_date, end_date, language,
                   themes_limit, hist, market_data, news_status, articles, now,
                   themes, key_stories>>
    /\ UNCHANGED <<articles_limit, performance_summary, news_summary,
                   discarded, password>>

\* Completion: st.session_state.report_data = {...}, then the results section
StoreReport ==
    /\ pc = "store"
    /\ trace' = Append(trace, "store")
    /\ report_data' =
         [stored |-> TRUE,
          content |-> report_content,
          start_date |-> start_date,
          end_date |-> end_date,
          language |-> language,
          articles_count |-> Len(articles),
          themes_count |-> ThemesCount(themes),
          market_data |-> market_data]
    /\ ui' = ui \cup {"complete", "report_displayed"}
    /\ pc' = "idle"
    /\ UNCHANGED <<authenticated, start_date, end_date, language, themes_limit,
                   hist, market_data, news_status, articles, now, themes,
                   key_stories, report_content>>
    /\ UNCHANGED <<articles_limit, performance_summary, news_summary,
                   discarded, password>>

Next ==
    \/ LoginAttempt
    \/ RunDateError
    \/ RunDisplay
    \/ ClickGenerate
    \/ FetchPrices
    \/ FetchNews
    \/ Analyze
    \/ Synthesize
    \/ Translate
    \/ StoreReport

Spec == Init /\ [][Next]_vars

-----------------------------------------------------------------------------
(* Properties.                                                             *)

\* the step was started in the current run
Ran(step) == \E i \in 1..Len(trace) : trace[i] = step

\* x occurs in the sequence s
InSeq(s, x) == \E i \in 1..Len(s) : s[i] = x

\* C1: when report synthesis fails, the run is aborted: no translation request
\* follows, and no report is stored or presented as successfully generated.
C1_SynthesisFailureAborts ==
    "openai_error" \in ui =>
        /\ ~Ran("translate")
        /\ ~Ran("store")
        /\ ~HasReport(report_data)
        /\ "complete" \notin ui

\* C2: when the news fetch fails with a transport or parsing error, the run
\* does not end in the "no articles in the window" outcome.
C2_FetchFailureIsNotNoArticles ==
    (Ran("news") /\ news_status = "error") => "no_articles" \notin ui

\* C3: when the news fetch returns an empty sequence, the run halts with the
\* "no articles" outcome: classification, extraction, report synthesis and
\* translation never start, no generic error is shown, no report is stored.
C3_EmptyNewsHalts ==
    (Ran("news") /\ articles = <<>>) =>
        /\ pc = "idle"
        /\ trace = <<"prices", "news">>
        /\ "no_articles" \in ui
        /\ "processing_error" \notin ui
        /\ "complete" \notin ui
        /\ ~HasReport(report_data)

\* C3 witness: the provider answered with an empty list and the run has halted
C3_Witness ==
    /\ Ran("news")
    /\ news_status = "list"
    /\ articles = <<>>
    /\ ui = {"no_articles"}

HasEntry(md, t) ==
    \/ t \in IndexKeys(md)
    \/ t \in DOMAIN md["sectors"]
    \/ t \in DOMAIN md["stocks"]

\* the entry of ticker t
EntryOf(md, t) ==
    IF t \in IndexKeys(md) THEN md[t]
    ELSE IF t \in DOMAIN md["sectors"] THEN md["sectors"][t]
    ELSE md["stocks"][t]

\* the fetch pattern in which only ticker t answers as it does in h
OnlyTicker(h, t) == [u \in Tickers |-> IF u = t THEN h[t] ELSE Raised]

\* C5: the returned snapshot holds an entry for an instrument exactly when its
\* fetch did not raise and returned at least two observations, each entry sits
\* in its own group, and it is the entry the instrument gets when every other
\* fetch fails (the other instruments neither remove nor alter it).
C5_EntryIffUsableFetch ==
    pc = "agg_returned" =>
        /\ \A t \in Tickers :
            HasEntry(market_data, t)
                <=> (~hist[t].raised /\ Len(hist[t].close) >= 2)
        /\ IndexKeys(market_data)
             \subseteq {market_indices[i].ticker : i \in 1..Len(market_indices)}
        /\ DOMAIN market_data["sectors"]
             \subseteq {sector_etfs[i].ticker : i \in 1..Len(sector_etfs)}
        /\ DOMAIN market_data["stocks"]
             \subseteq {all_stocks[i] : i \in 1..Len(all_stocks)}
        /\ \A t \in Tickers :
            HasEntry(market_data, t) =>
                EntryOf(market_data, t)
                  = EntryOf(get_market_data_by_range(OnlyTicker(hist, t)), t)

\* C5 witness: the index fetch raised, a stock returned a single observation,
\* and the other two instruments have their entries
C5_Witness ==
    /\ pc = "agg_returned"
    /\ hist["^GSPC"].raised
    /\ Len(hist["BABA"].close) = 1
    /\ IndexKeys(market_data) = {}
    /\ DOMAIN market_data["sectors"] = {"XLK"}
    /\ DOMAIN market_data["stocks"] = {"AAPL"}

\* C6: when no instrument yields a usable series the aggregator still returns,
\* and the snapshot has the sectors and stocks maps present and empty and no
\* index entry.
C6_AllFailGivesEmptyGroups ==
    (pc = "agg_returned"
        /\ \A t \in Tickers : hist[t].raised \/ Len(hist[t].close) < 2) =>
        /\ "sectors" \in DOMAIN market_data
        /\ "stocks" \in DOMAIN market_data
        /\ DOMAIN market_data["sectors"] = {}
        /\ DOMAIN market_data["stocks"] = {}
        /\ IndexKeys(market_data) = {}

\* C6 witness: every fetch raised and the aggregator has returned
C6_Witness ==
    /\ pc = "agg_returned"
    /\ \A t \in Tickers : hist[t].raised
    /\ DOMAIN market_data = {"sectors", "stocks"}

\* C7: every stored change_pct is (last close - first close) / first close * 100
\* rounded to the nearest hundredth, taken from the first and last observation
\* of the series; 100.00 -> 110.00 gives 10.00 and 4000 -> 4100 gives 2.50.
C7_ChangePctFromFirstAndLast ==
    pc = "agg_returned" =>
        \A t \in Tickers :
            HasEntry(market_data, t) =>
                LET close == hist[t].close
                    first == close[1]
                    last  == close[Len(close)]
                    c     == EntryOf(market_data, t).change_pct
                IN  /\ 2 * Abs(c * first - (last - first) * 10000) <= first
                    /\ (first = 100000 /\ last = 110000) => c = 1000
                    /\ (first = 4000000 /\ last = 4100000) => c = 250

\* C7 witness: a three-point series 4000, 4100, 4100 and a series 100, 110
C7_Witness ==
    /\ pc = "agg_returned"
    /\ hist["^GSPC"].close = <<4000000, 4100000, 4100000>>
    /\ market_data["^GSPC"].change_pct = 250
    /\ hist["XLK"].close = <<110000, 100000, 110000>>
    /\ market_data["sectors"]["XLK"].change_pct = 0
    /\ hist["AAPL"].close = <<150125, 149875>>
    /\ market_data["stocks"]["AAPL"].change_pct = -17

\* word occurs, compared character by character without regard to case, in
\* the article's title followed by its teaser
KeywordOccurs(article, word) ==
    LET raw == article.title \o <<" ">> \o article.teaser
    IN  \E i \in 1..(Len(raw) - Len(word) + 1) :
            \A j \in 1..Len(word) : LowerChar(raw[i + j - 1]) = word[j]

\* some keyword of the theme's rule occurs in the article
ThemeApplies(th, article) ==
    \E r \in 1..Len(theme_rules) :
        /\ theme_rules[r].theme = th
        /\ \E k \in 1..Len(theme_rules[r].words) :
              KeywordOccurs(article, theme_rules[r].words[k])

\* the subsequence of arts to which the theme applies
Matching(th, arts) ==
    LET Test(a) == ThemeApplies(th, a) IN SelectSeq(arts, Test)

\* C8: classification is multi-label: each non-fallback bucket holds, in fetch
\* order, exactly the articles in which one of the theme's keywords occurs,
\* whatever the other rules decide; "Fed signals new tariffs on China imports"
\* is filed under fed_policy, trade_tensions and china_sea and nowhere else.
C8_MultiLabelSubstringMatch ==
    pc = "classified" =>
        /\ \A th \in ThemeLabels \ {"other"} :
              themes[th] = Matching(th, articles)
        /\ InSeq(articles, FedArticle) =>
              {th \in ThemeLabels : InSeq(themes[th], FedArticle)}
                = {"fed_policy", "trade_tensions", "china_sea"}

\* C8 witness: the example article was classified together with an article
\* that matches only across the title/teaser boundary
C8_Witness ==
    /\ pc = "classified"
    /\ articles = <<TradeWarArticle, FedArticle>>
    /\ themes["trade_tensions"] = <<TradeWarArticle, FedArticle>>
    /\ themes["fed_policy"] = <<FedArticle>>
    /\ themes["china_sea"] = <<FedArticle>>

\* C9: an article is in the 'other' bucket exactly when none of the nine rules
\* matches it, so every article is in at least one bucket and an article in
\* 'other' is in no other bucket.
C9_OtherIffNoRuleMatches ==
    pc = "classified" =>
        \A i \in 1..Len(articles) :
            LET a == articles[i]
            IN  /\ InSeq(themes["other"], a)
                    <=> (\A th \in ThemeLabels \ {"other"} : ~ThemeApplies(th, a))
                /\ InSeq(themes["other"], a)
                    <=> (\A th \in ThemeLabels \ {"other"} : ~InSeq(themes[th], a))
                /\ \E th \in ThemeLabels : InSeq(themes[th], a)

\* C9 witness: one article fell through to 'other' and one did not
C9_Witness ==
    /\ pc = "classified"
    /\ articles = <<FedArticle, QuietArticle>>
    /\ themes["other"] = <<QuietArticle>>

\* C10: the KeyStorySet has at most K articles per theme, each from that
\* theme's bucket, and has a key for a theme exactly when the bucket is not
\* empty; no key maps to an empty sequence.
C10_AtMostKFromBucket ==
    pc = "extracted" =>
        /\ \A th \in ThemeLabels :
              th \in DOMAIN key_stories <=> themes[th] # <<>>
        /\ \A th \in DOMAIN key_stories :
              /\ Len(key_stories[th]) <= themes_limit
              /\ key_stories[th] # <<>>
              /\ \A i \in 1..Len(key_stories[th]) :
                    InSeq(themes[th], key_stories[th][i])

\* C10 witness: a bucket of three articles cut to K = 2, other buckets absent
C10_Witness ==
    /\ pc = "extracted"
    /\ themes_limit = 2
    /\ Len(themes["other"]) = 3
    /\ Len(key_stories["other"]) = 2
    /\ "crypto" \notin DOMAIN key_stories

\* the number of positions that go before position i when a bucket with the
\* given scores is ordered by descending score, equal scores in bucket order
GoBefore(scores, i) ==
    Cardinality({j \in 1..Len(scores) :
        \/ scores[j] > scores[i]
        \/ scores[j] = scores[i] /\ j < i})

\* C11: within each theme the selected articles are the first K of the bucket
\* ordered by descending score, and articles with the same score keep their
\* bucket (fetch) order, so the one fetched first is listed and selected first.
C11_StableTopK ==
    pc = "extracted" =>
        \A th \in DOMAIN key_stories :
            LET bucket == themes[th]
                sel    == key_stories[th]
                scores == [j \in 1..Len(bucket) |->
                             _score_article_importance(bucket[j], now)]
            IN  /\ Len(sel) = Min(themes_limit, Len(bucket))
                /\ \A i \in 1..Len(bucket) :
                      GoBefore(scores, i) < themes_limit =>
                          sel[GoBefore(scores, i) + 1] = bucket[i]

\* C11 witness: two different articles of one bucket have the same score, K is
\* 1, and the one fetched first is the one selected
C11_Witness ==
    /\ pc = "extracted"
    /\ now = 48
    /\ themes_limit = 1
    /\ themes["trade_tensions"] = <<TradeWarArticle, FedArticle>>
    /\ key_stories["trade_tensions"] = <<TradeWarArticle>>
    /\ _score_article_importance(TradeWarArticle, now)
         = _score_article_importance(FedArticle, now)

\* C12: translate_content called with "English" returns its input unchanged
\* and issues no request to the language service; in a run whose report
\* language is English no translation request is issued and the report stays
\* as synthesized.
C12_EnglishIsNotTranslated ==
    /\ Ran("synthesize") =>
          \A ok \in BOOLEAN :
              translate_content(report_content, "English", ok)
                = [content |-> report_content, shown |-> {}, called |-> FALSE]
    /\ (Ran("synthesize") /\ language = "English") =>
          /\ ~Ran("translate")
          /\ "translation_error" \notin ui
          /\ report_content.translated_to = "none"
          /\ pc \in {"store", "idle"}

\* C12 witness: a run with language English has stored the synthesized report
\* without a translation step
C12_Witness ==
    /\ pc = "idle"
    /\ language = "English"
    /\ trace = <<"prices", "news", "classify", "extract", "synthesize", "store">>
    /\ HasReport(report_data)
    /\ report_data.content = LLMReport

\* C13: when the translation request fails, translate_content hands back the
\* text it was given: the run shows no processing error, goes on to store
\* the report, and the stored report is the untranslated synthesized text.
C13_TranslationFailureKeepsText ==
    "translation_error" \in ui =>
        /\ Ran("translate")
        /\ language # "English"
        /\ report_content
             = (IF "openai_error" \in ui THEN ErrorReport ELSE LLMReport)
        /\ "processing_error" \notin ui
        /\ pc \in {"store", "idle"}
        /\ pc = "idle" =>
              /\ HasReport(report_data)
              /\ report_data.content = report_content
              /\ "complete" \in ui

\* C13 witness: the translation to Thai failed and the run has stored the
\* untranslated report
C13_Witness ==
    /\ pc = "idle"
    /\ language = "Thai"
    /\ "translation_error" \in ui
    /\ Ran("store")
    /\ HasReport(report_data)
    /\ report_data.content = LLMReport

\* C14: the number of articles a Generate run processes (classifies) never
\* exceeds the "Article Analysis Limit" selected for that run.
C14_ProcessedWithinLimit ==
    Ran("classify") => Len(articles) <= articles_limit

\* the steps of a run with and without the translation step
StepsWithTranslation ==
    <<"prices", "news", "classify", "extract", "synthesize", "translate",
      "store">>

StepsWithoutTranslation ==
    <<"prices", "news", "classify", "extract", "synthesize", "store">>

\* s is an initial part of t
IsPrefix(s, t) == Len(s) <= Len(t) /\ s = SubSeq(t, 1, Len(s))

\* C15: the steps of a run start one after another in the order price
\* fetches, news fetch, classification, extraction, report synthesis,
\* optional translation, result: each step starts only when all earlier ones
\* have returned, the report is requested only after both fetches, and the
\* translation only after the report request has returned.
C15_StepsInOrder ==
    /\ IsPrefix(trace, StepsWithTranslation)
          \/ IsPrefix(trace, StepsWithoutTranslation)
    /\ pc = "prices" => trace = <<>>
    /\ pc = "news" => trace = <<"prices">>
    /\ pc = "analysis" => trace = <<"prices", "news">>
    /\ pc = "synthesize" =>
          trace = <<"prices", "news", "classify", "extract">>
    /\ pc = "translate" =>
          trace = <<"prices", "news", "classify", "extract", "synthesize">>
    /\ pc = "store" =>
          /\ Len(trace) >= 5
          /\ trace[Len(trace)] \in {"synthesize", "translate"}
    /\ Ran("synthesize") => report_content # NoContent

\* C15 witness: a run has gone through every step, translation included
C15_Witness ==
    /\ pc = "idle"
    /\ trace = StepsWithTranslation
    /\ report_data.content.translated_to = "Vietnamese"

\* the number of entries of the list of which a letter-for-letter,
\* case-blind copy stands somewhere in the article's title and teaser
Occurring(article, words) ==
    Cardinality({k \in 1..Len(words) : KeywordOccurs(article, words[k])})

\* C16: the keyword part of the score (the score without the recency bonus)
\* is 5 for each listed company present, plus 3 for each listed impact word
\* present, plus 4 for each listed urgency word present, each entry counted
\* once, with no cap: two companies, two impact words and two urgency words
\* give 24.
C16_KeywordScoreAdditive ==
    pc = "extracted" =>
        \A a \in {articles[i] : i \in 1..Len(articles)} :
            LET keyword == _score_article_importance(a, now)
                             - RecencyScore(a.created, now)
            IN  /\ keyword = 5 * Occurring(a, major_companies)
                                + 3 * Occurring(a, impact_words)
                                + 4 * Occurring(a, urgent_words)
                /\ a = BusyArticle => keyword = 24
                /\ a = LongTeaserArticle => keyword = 0

\* C16 witness: the article with two entries of each list was scored and,
\* fetched last, was selected first
C16_Witness ==
    /\ pc = "extracted"
    /\ articles = <<LongTeaserArticle, BusyArticle>>
    /\ key_stories["other"] = <<BusyArticle, LongTeaserArticle>>

\* C19: each rendered entry shows the whole teaser when it has at most 200
\* characters, and otherwise its first 200 characters followed by "...";
\* the marker is there only after a cut; the entry also carries the
\* article's title, creation date and URL and the disclaimer sentence.
C19_TeaserCutAt200 ==
    pc = "summarized" =>
        \A b \in 1..Len(news_summary) :
            \A i \in 1..Len(news_summary[b].entries) :
                LET entry == news_summary[b].entries[i]
                    a     == key_stories[news_summary[b].theme][i]
                IN  /\ entry.title = a.title
                    /\ entry.date = a.created
                    /\ entry.url = a.url
                    /\ entry.disclaimer =
                         "This is a third-party news source. Please verify independently."
                    /\ Len(a.teaser) <= 200 => entry.summary = a.teaser
                    /\ Len(a.teaser) > 200 =>
                          /\ Len(entry.summary) = 203
                          /\ SubSeq(entry.summary, 1, 200)
                               = SubSeq(a.teaser, 1, 200)
                          /\ SubSeq(entry.summary, 201, 203) = <<".", ".", ".">>

\* C19 witness: a teaser of 200 characters was rendered whole and one of 201
\* characters was cut
C19_Witness ==
    /\ pc = "summarized"
    /\ articles = <<FullTeaserArticle, LongTeaserArticle>>
    /\ key_stories["other"] = <<FullTeaserArticle, LongTeaserArticle>>
    /\ Len(news_summary[1].entries[1].summary) = 200
    /\ Len(news_summary[1].entries[2].summary) = 203

\* C20: every selected story is rendered: for each theme of the KeyStorySet
\* the news summary has a block with as many entries as stories selected.
C20_EverySelectedStoryRendered ==
    pc = "summarized" =>
        \A th \in DOMAIN key_stories :
            \E b \in 1..Len(news_summary) :
                /\ news_summary[b].theme = th
                /\ Len(news_summary[b].entries) = Len(key_stories[th])

\* C17: an article gets the recency bonus exactly when its creation time t
\* is less than 24 hours before the evaluation time: now - 24h < t <= now;
\* an article 24 hours old or older, or dated after the evaluation time,
\* gets none.
C17_BonusIffWithinLastDay ==
    pc = "extracted" =>
        \A i \in 1..Len(articles) :
            articles[i].created.kind = "aware" =>
                (RecencyScore(articles[i].created, now) = RecencyBonus
                    <=> (now - 24 < articles[i].created.t
                            /\ articles[i].created.t <= now))

\* the change a rendered line shows, in hundredths
LineValue(line) ==
    (IF line.change.sign = "-" THEN 0 - 1 ELSE 1)
        * (line.change.whole * 100 + line.change.frac)

\* the place of the name in the configured indices
IndexPlace(name) ==
    CHOOSE i \in 1..Len(SummaryIndices) : SummaryIndices[i].name = name

\* C18: in the performance summary the index lines follow the configured
\* order of the indices that have an entry, the sector lines are in
\* non-increasing order of change_pct, and the stock lines are the (at most)
\* 10 stocks of largest |change_pct| in non-increasing order of |change_pct|.
C18_SummaryOrdering ==
    pc = "perf_built" =>
        LET ps      == performance_summary
            sectors == market_data["sectors"]
            stocks  == market_data["stocks"]
        IN  /\ Len(ps.indices) = Cardinality(IndexKeys(market_data))
            /\ \A i \in 1..Len(ps.indices) :
                  /\ SummaryIndices[IndexPlace(ps.indices[i].label)].ticker
                        \in IndexKeys(market_data)
                  /\ \A j \in (i + 1)..Len(ps.indices) :
                        IndexPlace(ps.indices[i].label)
                          < IndexPlace(ps.indices[j].label)
            /\ Len(ps.sectors) = Cardinality(DOMAIN sectors)
            /\ \A t \in DOMAIN sectors :
                  \E i \in 1..Len(ps.sectors) :
                      /\ ps.sectors[i].label = sectors[t].name
                      /\ LineValue(ps.sectors[i]) = sectors[t].change_pct
            /\ \A i \in 1..Len(ps.sectors) : \A j \in (i + 1)..Len(ps.sectors) :
                  LineValue(ps.sectors[i]) >= LineValue(ps.sectors[j])
            /\ Len(ps.stocks) = Min(10, Cardinality(DOMAIN stocks))
            /\ \A i \in 1..Len(ps.stocks) :
                  /\ ps.stocks[i].label \in DOMAIN stocks
                  /\ LineValue(ps.stocks[i])
                        = stocks[ps.stocks[i].label].change_pct
                  /\ \A j \in (i + 1)..Len(ps.stocks) :
                        /\ ps.stocks[i].label # ps.stocks[j].label
                        /\ Abs(LineValue(ps.stocks[i]))
                              >= Abs(LineValue(ps.stocks[j]))
                  /\ \A t \in DOMAIN stocks :
                        (\A j \in 1..Len(ps.stocks) : ps.stocks[j].label # t)
                            => Abs(stocks[t].change_pct)
                                 <= Abs(LineValue(ps.stocks[i]))

\* C18 witness: eleven stocks had an entry and ten were rendered, a fall of
\* 3.00% ahead of a rise of 2.50%; the sectors, stored as +1.00%, -3.00%,
\* +2.50%, were rendered by falling change; one index had no entry
C18_Witness ==
    /\ pc = "perf_built"
    /\ Cardinality(DOMAIN market_data["stocks"]) = 11
    /\ Len(performance_summary.stocks) = 10
    /\ LineValue(performance_summary.stocks[1]) = 0 - 300
    /\ LineValue(performance_summary.stocks[4]) = 250
    /\ IndexKeys(market_data) = {"^GSPC", "^IXIC"}
    /\ DOMAIN market_data["sectors"] = {"XLK", "XLF", "XLV"}
    /\ market_data["sectors"]["XLK"].change_pct = 100
    /\ market_data["sectors"]["XLF"].change_pct = 0 - 300
    /\ [i \in 1..3 |-> performance_summary.sectors[i].label]
         = <<"Healthcare", "Technology", "Financials">>

\* the step ends a Generate invocation (the script run returns to idle)
GenerateEnds == pc # "idle" /\ pc' = "idle"

\* the invocation that the step ends ran to completion (its report was stored)
GenerateCompletes == GenerateEnds /\ pc = "store"

C21_Step ==
    /\ pc' # "idle" => ~HasReport(report_data')
    /\ pc # "idle" => ~HasReport(report_data)
    /\ GenerateEnds => (HasReport(report_data') <=> GenerateCompletes)
    /\ (GenerateEnds /\ ~GenerateCompletes) => "report_displayed" \notin ui'
    /\ (pc = "idle" /\ pc' = "idle") => report_data' = report_data
    /\ "report_displayed" \in ui' => HasReport(report_data')

\* C21: a stored report exists exactly when the most recent Generate
\* invocation ran to completion.  While an invocation is running (from its
\* start, before any fetch) no report is stored; when it ends, a report is
\* stored if and only if it completed, and an invocation that aborts shows
\* none; script runs without Generate leave the stored report as it is; a
\* report is displayed only when one is stored.
C21_ReportIffLastGenerateCompleted == [][C21_Step]_vars

\* C21 witness: an invocation that found a stored report and deleted it ended
\* for want of articles, and no report is stored or displayed
C21_Witness ==
    /\ pc = "idle"
    /\ discarded
    /\ Ran("news")
    /\ "no_articles" \in ui
    /\ ~HasReport(report_data)
    /\ "report_displayed" \notin ui

\* the step starts pipeline steps, among them every price fetch, news fetch,
\* report synthesis and translation call
IssuesCall == Len(trace') > Len(trace)

C22_Step ==
    /\ IssuesCall => authenticated /\ authenticated'
    /\ pc' # "idle" => authenticated'
    /\ (~authenticated /\ authenticated')
          => /\ pc = "idle" /\ pc' = "idle"
             /\ password' \in AccessCodes
             /\ password' = get_app_password
    /\ (~authenticated /\ password' \in AccessCodes
           /\ password' # get_app_password) => ~authenticated'
    /\ authenticated => authenticated'

\* C22: no price fetch, news fetch, report synthesis or translation call is
\* issued while the authenticated flag is false; the flag turns true only on a
\* login attempt whose submitted access code equals the configured password
\* (an attempt with another code leaves it false), and once true it stays
\* true for the rest of the session.
C22_CallsOnlyWhenAuthenticated == [][C22_Step]_vars

\* C22 witness: after a login with the configured password a Generate
\* invocation issued all four calls, the flag still being true
C22_Witness ==
    /\ authenticated
    /\ pc = "idle"
    /\ Ran("prices")
    /\ Ran("news")
    /\ Ran("synthesize")
    /\ Ran("translate")
    /\ Ran("store")

\* the score of the three keyword lists alone
KeywordOnly(article) ==
    LET text == ArticleText(article)
    IN  KeywordScore(major_companies, CompanyWeight, text)
        + KeywordScore(impact_words, ImpactWeight, text)
        + KeywordScore(urgent_words, UrgentWeight, text)

\* C23: an article whose 'created' is absent, empty, unparseable or without
\* timezone offset makes _score_article_importance raise nothing and is
\* scored by its keywords alone, without the recency bonus; every score is a
\* non-negative integer, and extract_key_stories is never left by an
\* exception of the timestamp handling: it returns the stories of every
\* non-empty theme.
C23_MalformedTimestampKeywordScore ==
    /\ pc # "extract_raised"
    /\ pc = "extracted" =>
        /\ DOMAIN key_stories = ExtractedThemes(themes)
        /\ \A a \in {articles[i] : i \in 1..Len(articles)} :
            /\ ~TimestampRaises(a.created)
            /\ _score_article_importance(a, now) \in Nat
            /\ a.created.kind \in {"absent", "empty", "invalid", "naive"}
                  => _score_article_importance(a, now) = KeywordOnly(a)

\* C23 witness: a feed with a missing, an offset-less, an empty and an
\* unparseable 'created' was extracted; the offset-less timestamp lies 8
\* hours before the clock reading and the record still scores its keywords
\* only
C23_Witness ==
    /\ pc = "extracted"
    /\ articles = UndatedFeed
    /\ now = 48
    /\ [i \in 1..4 |-> articles[i].created.kind]
         = <<"absent", "naive", "empty", "invalid">>
    /\ now - BusyArticle.created.t < RecentHours
    /\ [i \in 1..4 |-> _score_article_importance(articles[i], now)]
         = <<12, 24, 0, 0>>
    /\ \E th \in DOMAIN key_stories : InSeq(key_stories[th], BusyArticle)

=============================================================================
